---- MODULE Spec2Model ----
(***************************************************************************)
(* Model of the `rfcs` tool: the document scanner, the branch lister, the  *)
(* number allocator, the branch creator and the `create`/`list` commands.  *)
(* Strings are sequences of one-character strings; a path is the sequence  *)
(* of its components below the configured repository root ".".             *)
(***************************************************************************)
EXTENDS Integers, Sequences, FiniteSets, TLC

VARIABLES
    tree,               \* directory entries below the root: [path, isDir]
    isRepo,             \* the configured path holds a git repository
    branches,           \* local branches: name -> commit
    head,               \* HEAD: none / symbolic to a branch / detached
    worktree,           \* commit the working tree was last checked out at
    pc,                 \* position inside create_and_switch_to_branch
    cmd,                \* operation running, or the last one that ran
    result,             \* outcome of the last finished operation
    title,              \* argument of the last `create` command
    next_rfc,           \* number allocated by the last `create` command
    branch_name,        \* argument of create_and_switch_to_branch
    current_main_head,  \* local of create_and_switch_to_branch
    output,             \* paths printed by `list` / names returned by list_branches
    calls,              \* operations started so far
    pre,                \* repository as it was when the operation started
    partial,            \* refs left behind by calls that failed after create-ref
    made                \* ids of the branches created by `create` commands

vars == <<tree, isRepo, branches, head, worktree, pc, cmd, result, title,
          next_rfc, branch_name, current_main_head, output, calls, pre,
          partial, made>>

(* ------------------------------ bounds -------------------------------- *)

MaxCalls == 2
MaxFiles == 2

(* ------------------------------ strings ------------------------------- *)

Digits == {"0", "1", "2", "3", "4", "5", "6", "7", "8", "9"}

DigitChars == <<"0", "1", "2", "3", "4", "5", "6", "7", "8", "9">>

DigitVal(c) == CHOOSE d \in 0..9 : DigitChars[d + 1] = c

s_main == <<"m", "a", "i", "n">>
s_master == <<"m", "a", "s", "t", "e", "r">>

b_017_c == <<"0", "1", "7", "-", "c">>
b_010_stale == <<"0", "1", "0", "-", "s", "t", "a", "l", "e">>
b_999_z == <<"9", "9", "9", "-", "z">>

n_000_a_md == <<"0", "0", "0", "-", "a", ".", "m", "d">>
n_041_b_txt == <<"0", "4", "1", "-", "b", ".", "t", "x", "t">>
n_003_x_md == <<"0", "0", "3", "-", "x", ".", "m", "d">>
n_007_y_txt == <<"0", "0", "7", "-", "y", ".", "t", "x", "t">>
n_006_w_rst == <<"0", "0", "6", "-", "w", ".", "r", "s", "t">>
n_999_x_md == <<"9", "9", "9", "-", "x", ".", "m", "d">>
n_001 == <<"0", "0", "1">>
n_readme_org == <<"r", "e", "a", "d", "m", "e", ".", "o", "r", "g">>
n_91_migration_sql ==
    <<"9", "1", "_", "m", "i", "g", "r", "a", "t", "i", "o", "n", ".", "s", "q", "l">>
n_512_q_sql == <<"5", "1", "2", "-", "q", ".", "s", "q", "l">>
n_src == <<"s", "r", "c">>
n_main_rs == <<"m", "a", "i", "n", ".", "r", "s">>
n_100_n_md == <<"1", "0", "0", "-", "n", ".", "m", "d">>

t_First_idea == <<"F", "i", "r", "s", "t", " ", "i", "d", "e", "a">>
t_Add_metrics == <<"A", "d", "d", " ", "m", "e", "t", "r", "i", "c", "s">>
t_qqq == <<"?", "?", "?">>
t_mixed == <<"a", ",", " ", "b", ".", "!">>

b_001_First_idea ==
    <<"0", "0", "1", "-", "F", "i", "r", "s", "t", "-", "i", "d", "e", "a">>
b_007_Add_metrics ==
    <<"0", "0", "7", "-", "A", "d", "d", "-", "m", "e", "t", "r", "i", "c", "s">>
b_007_x == <<"0", "0", "7", "-", "x">>

Titles == {t_First_idea, t_Add_metrics, t_qqq, t_mixed}
CreateTitles == {t_First_idea, t_qqq}
DirectNames == {b_007_x}
ExtraBranches == {b_017_c, b_010_stale, b_999_z}

(* --------------------------- paths (std::path) ------------------------ *)

\* PathBuf::to_string_lossy of a path below the root "."
RECURSIVE to_string_lossy(_)
to_string_lossy(p) ==
    IF p = <<>> THEN <<".">>
    ELSE to_string_lossy(SubSeq(p, 1, Len(p) - 1)) \o <<"/">> \o p[Len(p)]

None == <<"None">>

\* Path::file_name: the last normal component; None for the root "."
file_name(p) == IF p = <<>> THEN None ELSE p[Len(p)]

LastDot(name) ==
    IF \E i \in 1..Len(name) : name[i] = "."
    THEN CHOOSE i \in 1..Len(name) :
            /\ name[i] = "."
            /\ \A j \in (i + 1)..Len(name) : name[j] # "."
    ELSE 0

\* Path::extension: what follows the last '.' of the file name; None when
\* there is no file name, no '.', or the only '.' is the first character
extension(p) ==
    IF p = <<>> THEN None
    ELSE LET name == p[Len(p)]
             d == LastDot(name)
         IN IF d <= 1 THEN None ELSE SubSeq(name, d + 1, Len(name))

(* ------------------------- the digit-run rule ------------------------- *)

IsDigit(c) == c \in Digits

\* start of the leftmost match of RFC_REGEX_PATTERN, (?<rfc_number>\d{3,});
\* 0 when the string has no match
MatchStart(s) ==
    LET starts == {i \in 1..(Len(s) - 2) :
                      IsDigit(s[i]) /\ IsDigit(s[i + 1]) /\ IsDigit(s[i + 2])}
    IN IF starts = {} THEN 0
       ELSE CHOOSE i \in starts : \A j \in starts : i <= j

\* the capture group rfc_number of the leftmost match: \d{3,} is greedy, so
\* the match runs to the end of the digit run
captures(s) ==
    LET i == MatchStart(s)
    IN IF i = 0 THEN None
       ELSE LET j == CHOOSE k \in i..Len(s) :
                        /\ \A m \in i..k : IsDigit(s[m])
                        /\ (k = Len(s) \/ ~IsDigit(s[k + 1]))
            IN SubSeq(s, i, j)

\* Regex::is_match
is_match(s) == MatchStart(s) # 0

\* str::parse::<usize> of a string of decimal digits
RECURSIVE parse(_)
parse(ds) ==
    IF ds = <<>> THEN 0
    ELSE 10 * parse(SubSeq(ds, 1, Len(ds) - 1)) + DigitVal(ds[Len(ds)])

SetMax(S) == CHOOSE m \in S : \A x \in S : x <= m

(* -------------------------- document scanner -------------------------- *)

e_txt == <<"t", "x", "t">>
e_md == <<"m", "d">>
e_markdown == <<"m", "a", "r", "k", "d", "o", "w", "n">>
e_rst == <<"r", "s", "t">>
e_adoc == <<"a", "d", "o", "c">>
e_org == <<"o", "r", "g">>

TextExtensions == {e_txt, e_md, e_markdown, e_rst, e_adoc, e_org}

file_is_text_document(f) ==
    IF extension(f) = None THEN FALSE ELSE extension(f) \in TextExtensions

file_has_rfc_id(f) ==
    IF file_name(f) = None THEN FALSE ELSE is_match(file_name(f))

\* WalkDir yields the root and every entry below it, directories included;
\* the two filters look at the path only
files_in_rfc_repo(entries) ==
    {f \in {<<>>} \cup {e.path : e \in entries} :
        file_is_text_document(f) /\ file_has_rfc_id(f)}

(* --------------------------- number allocator ------------------------- *)

next_rfc_number_files_only(git_branches, rfcs_in_repo) ==
    LET strings == {to_string_lossy(f) : f \in rfcs_in_repo}
        numbers == {parse(captures(s)) : s \in {x \in strings : captures(x) # None}}
    IN SetMax(numbers \cup {1}) + 1

\* fold(1, max) over the numbers captured from the path strings and the
\* branch names, plus one
next_rfc_number(git_branches, rfcs_in_repo) ==
    LET strings == {to_string_lossy(f) : f \in rfcs_in_repo} \cup git_branches
        numbers == {parse(captures(s)) : s \in {x \in strings : captures(x) # None}}
    IN SetMax(numbers \cup {1}) + 1

(* ----------------------------- branch name ---------------------------- *)

RECURSIVE to_digits(_)
to_digits(n) ==
    IF n < 10 THEN <<DigitChars[n + 1]>>
    ELSE to_digits(n \div 10) \o <<DigitChars[(n % 10) + 1]>>

\* format!("{:03}", n): decimal, zero-padded to a width of at least 3
RECURSIVE pad03(_)
pad03(ds) == IF Len(ds) >= 3 THEN ds ELSE pad03(<<"0">> \o ds)

format_03(n) == pad03(to_digits(n))

\* str::replace(' ', "-")
replace_spaces(s) == [i \in 1..Len(s) |-> IF s[i] = " " THEN "-" ELSE s[i]]

KeepChar(c) == c \notin {",", ".", "?", "!"}

remove_punctuation_keeps_bang(s) == SelectSeq(s, LAMBDA c : c \notin {",", ".", "?"})

\* str::replace([',', '.', '?', '!'], "")
remove_punctuation(s) == SelectSeq(s, KeepChar)

slug(t) == remove_punctuation(replace_spaces(t))

\* format!("{:03}-{}", next_rfc, slug)
format_branch_name(n, t) == format_03(n) \o <<"-">> \o slug(t)

(* ------------------------------ repository ---------------------------- *)

NoHead == [kind |-> "none", ref |-> <<>>, commit |-> "none"]
Symbolic(name) == [kind |-> "symbolic", ref |-> name, commit |-> "none"]
Detached(c) == [kind |-> "detached", ref |-> <<>>, commit |-> c]

NoBranches == [b \in {} |-> "none"]

\* Repository::init: opens the repository at the path, and creates an empty
\* one (HEAD on the unborn default branch) when the path holds none; creating
\* one can fail (ok = FALSE)
init_repo(ok) ==
    IF isRepo THEN [ok |-> TRUE, isRepo |-> TRUE, head |-> head]
    ELSE IF ok THEN [ok |-> TRUE, isRepo |-> TRUE, head |-> Symbolic(s_master)]
    ELSE [ok |-> FALSE, isRepo |-> FALSE, head |-> head]

InitOutcomes == IF isRepo THEN {TRUE} ELSE BOOLEAN

\* Repository::find_branch(name, Local): a lookup of a missing branch fails
\* with ErrorCode::NotFound
find_branch(name) ==
    IF name \in DOMAIN branches
    THEN [ok |-> TRUE, commit |-> branches[name], code |-> "Ok"]
    ELSE [ok |-> FALSE, commit |-> "none", code |-> "NotFound"]

find_main_branch_head ==
    LET m == find_branch(s_main)
    IN IF m.ok THEN [ok |-> TRUE, commit |-> m.commit, err |-> "Ok"]
       ELSE IF m.code = "Exists"
            THEN LET ms == find_branch(s_master)
                 IN IF ms.ok THEN [ok |-> TRUE, commit |-> ms.commit, err |-> "Ok"]
                    ELSE [ok |-> FALSE, commit |-> "none", err |-> "NoMainBranch"]
            ELSE [ok |-> FALSE, commit |-> "none", err |-> "UnexpectedGitError"]

Snapshot(r, h) ==
    [isRepo |-> r, branches |-> branches, head |-> h, partial |-> partial]

(* ------------------------------- Init --------------------------------- *)

File(p) == [path |-> p, isDir |-> FALSE]
Dir(p) == [path |-> p, isDir |-> TRUE]

Candidates ==
    { File(<<n_000_a_md>>), File(<<n_041_b_txt>>), File(<<n_003_x_md>>),
      File(<<n_007_y_txt>>), File(<<n_006_w_rst>>), File(<<n_001, n_999_x_md>>),
      File(<<n_readme_org>>), File(<<n_91_migration_sql>>), File(<<n_512_q_sql>>),
      File(<<n_src, n_main_rs>>), Dir(<<n_100_n_md>>) }

\* a tree holds the directories its entries lie in
Trees ==
    {S \cup UNION {{Dir(SubSeq(e.path, 1, k)) : k \in 1..(Len(e.path) - 1)} : e \in S} :
        S \in {X \in SUBSET Candidates : Cardinality(X) <= MaxFiles}}

CommitOf(b) ==
    IF b = s_main THEN "c_main" ELSE IF b = s_master THEN "c_master" ELSE "c_old"

SmallTrees ==
    { {}, {File(<<n_003_x_md>>), File(<<n_007_y_txt>>)},
      {File(<<n_000_a_md>>)},
      {File(<<n_001, n_999_x_md>>), Dir(<<n_001>>)},
      {File(<<n_src, n_main_rs>>), Dir(<<n_src>>)} }

InitWith(trees, started) ==
    /\ tree \in trees
    /\ isRepo \in BOOLEAN
    /\ IF isRepo
       THEN \E mainline \in SUBSET {s_main, s_master} :
            \E extra \in {{}} \cup {{b} : b \in ExtraBranches} :
               /\ branches = [b \in mainline \cup extra |-> CommitOf(b)]
               /\ IF mainline # {}
                  THEN head \in {Symbolic(b) : b \in mainline} \cup {Detached("c_old")}
                  ELSE IF extra # {} THEN \E b \in extra : head = Symbolic(b)
                  ELSE head = Symbolic(s_master)
               /\ worktree = IF head.kind = "detached" THEN head.commit
                             ELSE IF head.ref \in DOMAIN branches
                             THEN branches[head.ref] ELSE "none"
       ELSE /\ branches = NoBranches
            /\ head = NoHead
            /\ worktree = "none"
    /\ pc = "idle"
    /\ cmd = "none"
    /\ result = "none"
    /\ title = <<>>
    /\ next_rfc = 0
    /\ branch_name = <<>>
    /\ current_main_head = "none"
    /\ output = {}
    /\ calls = started
    /\ pre = [isRepo |-> isRepo, branches |-> branches, head |-> head,
               partial |-> NoBranches]
    /\ partial = NoBranches
    /\ made = {}

\* a repository on which MaxCalls branch-creating calls are made
Init == InitWith(SmallTrees, 0)

\* any tree of at most MaxFiles candidate entries, and a single call
InitAlloc == InitWith(Trees, MaxCalls - 1)

(* ------------------------------ commands ------------------------------ *)

Idle == pc = "idle" /\ calls < MaxCalls

\* `rfcs list`: prints the scanner's output
cmd_list ==
    /\ pc = "idle"
    /\ cmd' = "list"
    /\ output' = files_in_rfc_repo(tree)
    /\ result' = "Ok"
    /\ title' = <<>>
    /\ next_rfc' = 0
    /\ branch_name' = <<>>
    /\ pre' = Snapshot(isRepo, head)
    /\ UNCHANGED <<tree, isRepo, branches, head, worktree, pc, current_main_head,
                   calls, partial, made>>

\* git::list_branches called on the configured path
list_branches ==
    /\ pc = "idle"
    /\ \E ok \in InitOutcomes :
          LET r == init_repo(ok)
          IN /\ isRepo' = r.isRepo
             /\ head' = r.head
             /\ result' = IF r.ok THEN "Ok" ELSE "OpenFailed"
             /\ output' = IF r.ok THEN DOMAIN branches ELSE {}
    /\ cmd' = "list_branches"
    /\ title' = <<>>
    /\ next_rfc' = 0
    /\ branch_name' = <<>>
    /\ pre' = Snapshot(isRepo, head)
    /\ UNCHANGED <<tree, branches, worktree, pc, current_main_head, calls, partial,
                   made>>

\* `rfcs create <title>` up to its call of git::create_and_switch_to_branch
cmd_create(t) ==
    /\ Idle
    /\ \E ok \in InitOutcomes :
          LET r == init_repo(ok)
              git_branches == DOMAIN branches
              files == files_in_rfc_repo(tree)
              n == next_rfc_number(git_branches, files)
          IN /\ isRepo' = r.isRepo
             /\ head' = r.head
             /\ pre' = Snapshot(isRepo, r.head)
             /\ IF r.ok
                THEN /\ next_rfc' = n
                     /\ branch_name' = format_branch_name(n, t)
                     /\ pc' = "START"
                     /\ result' = "running"
                ELSE /\ next_rfc' = 0
                     /\ branch_name' = <<>>
                     /\ pc' = "idle"
                     /\ result' = "OpenFailed"
    /\ cmd' = "create"
    /\ title' = t
    /\ calls' = calls + 1
    /\ output' = {}
    /\ UNCHANGED <<tree, branches, worktree, current_main_head, partial, made>>

\* git::create_and_switch_to_branch called with a given name
create_and_switch_to_branch(name) ==
    /\ Idle
    /\ cmd' = "create_and_switch"
    /\ branch_name' = name
    /\ pc' = "START"
    /\ result' = "running"
    /\ pre' = Snapshot(isRepo, head)
    /\ calls' = calls + 1
    /\ title' = <<>>
    /\ next_rfc' = 0
    /\ output' = {}
    /\ UNCHANGED <<tree, isRepo, branches, head, worktree, current_main_head,
                   partial, made>>

(* --------------------- create_and_switch_to_branch -------------------- *)

Fail(err) == pc' = "idle" /\ result' = err

\* let repo = init_repo(path)?
OpenRepo ==
    /\ pc = "START"
    /\ \E ok \in InitOutcomes :
          LET r == init_repo(ok)
          IN /\ isRepo' = r.isRepo
             /\ head' = r.head
             /\ IF r.ok THEN pc' = "OPENED" /\ result' = result
                ELSE Fail("OpenFailed")
    /\ UNCHANGED <<tree, branches, worktree, cmd, title, next_rfc, branch_name,
                   current_main_head, output, calls, pre, partial, made>>

\* let current_main_head = find_main_branch_head(&repo)?.peel_to_commit()?
FindMain ==
    /\ pc = "OPENED"
    /\ LET r == find_main_branch_head
       IN IF r.ok
          THEN current_main_head' = r.commit /\ pc' = "MAIN_FOUND" /\ result' = result
          ELSE Fail(r.err) /\ UNCHANGED current_main_head
    /\ UNCHANGED <<tree, isRepo, branches, head, worktree, cmd, title, next_rfc,
                   branch_name, output, calls, pre, partial, made>>

repo_branch_force(name, target) ==
    [ok |-> TRUE, branches |-> (name :> target) @@ branches]

\* Repository::branch(name, target, force = false)
repo_branch(name, target) ==
    IF name \in DOMAIN branches
    THEN [ok |-> FALSE, branches |-> branches]
    ELSE [ok |-> TRUE, branches |-> (name :> target) @@ branches]

\* let branch = repo.branch(branch_name, &current_main_head, false)?
CreateRef ==
    /\ pc = "MAIN_FOUND"
    /\ LET r == repo_branch(branch_name, current_main_head)
       IN /\ branches' = r.branches
          /\ IF r.ok
             THEN /\ pc' = "BRANCH_CREATED" /\ result' = result
                  /\ made' = IF cmd = "create" THEN made \cup {branch_name} ELSE made
             ELSE Fail("BranchExists") /\ UNCHANGED made
    /\ UNCHANGED <<tree, isRepo, head, worktree, cmd, title, next_rfc, branch_name,
                   current_main_head, output, calls, pre, partial>>

LeftBehind == (branch_name :> branches[branch_name]) @@ partial

\* repo.checkout_tree(current_main_head, safe): fails when the working tree
\* holds conflicting changes; nothing is undone
CheckoutTree ==
    /\ pc = "BRANCH_CREATED"
    /\ \E ok \in BOOLEAN :
          IF ok
          THEN /\ worktree' = current_main_head
               /\ pc' = "TREE_CHECKED_OUT" /\ result' = result
               /\ UNCHANGED partial
          ELSE /\ Fail("CheckoutFailed")
               /\ partial' = LeftBehind
               /\ UNCHANGED worktree
    /\ UNCHANGED <<tree, isRepo, branches, head, cmd, title, next_rfc, branch_name,
                   current_main_head, output, calls, pre, made>>

set_head_detached == Detached(current_main_head)

\* repo.set_head_bytes(refs/heads/<branch>): HEAD becomes a symbolic reference
set_head == Symbolic(branch_name)

\* repo.set_head_bytes(...)?; Ok(())
SetHead ==
    /\ pc = "TREE_CHECKED_OUT"
    /\ \E ok \in BOOLEAN :
          IF ok
          THEN head' = set_head /\ pc' = "idle" /\ result' = "Ok" /\ UNCHANGED partial
          ELSE Fail("SetHeadFailed") /\ partial' = LeftBehind /\ UNCHANGED head
    /\ UNCHANGED <<tree, isRepo, branches, worktree, cmd, title, next_rfc, branch_name,
                   current_main_head, output, calls, pre, made>>

Next ==
    \/ cmd_list
    \/ list_branches
    \/ \E t \in CreateTitles : cmd_create(t)
    \/ \E name \in DirectNames \cup DOMAIN partial : create_and_switch_to_branch(name)
    \/ OpenRepo
    \/ FindMain
    \/ CreateRef
    \/ CheckoutTree
    \/ SetHead

Spec == Init /\ [][Next]_vars

NextAlloc ==
    \/ cmd_list
    \/ list_branches
    \/ \E t \in Titles : cmd_create(t)
    \/ OpenRepo
    \/ FindMain
    \/ CreateRef
    \/ CheckoutTree
    \/ SetHead

SpecAlloc == InitAlloc /\ [][NextAlloc]_vars

(* ------------------------------- claims ------------------------------- *)

\* the id the digit-run rule finds in a name: the first run of 3 or more digits
HasId(name) == captures(name) # None
IdOf(name) == parse(captures(name))

Allocated == cmd = "create" /\ result # "OpenFailed"
Called == cmd \in {"create", "create_and_switch"}
Finished == Called /\ pc = "idle"

\* C1: the id returned by next_rfc_number is strictly greater than every id in
\* the file name of a discovered proposal file and in a branch name, also when
\* a directory of the file's path holds a run of 3 or more digits.
C1_AboveEveryExistingId ==
    Allocated =>
        /\ \A f \in files_in_rfc_repo(tree) :
              HasId(file_name(f)) => next_rfc > IdOf(file_name(f))
        /\ \A b \in DOMAIN pre.branches : HasId(b) => next_rfc > IdOf(b)

ObservedIds ==
    {IdOf(file_name(f)) : f \in {g \in files_in_rfc_repo(tree) : HasId(file_name(g))}}
        \cup {IdOf(b) : b \in {c \in DOMAIN pre.branches : HasId(c)}}

\* C6: when at least one id is observed, next_rfc_number returns one past the
\* maximum id observed over file names and branch names; an input whose only
\* observed id is 0 gives 1.
C6_OnePastMaximum ==
    (Allocated /\ ObservedIds # {}) => next_rfc = SetMax(ObservedIds) + 1

\* C7: with branch main, no branch name holding a digit run and no proposal
\* files, `create "First idea"` creates branch 001-First-idea and leaves HEAD
\* on it.
C7_FirstIdea ==
    ( /\ cmd = "create" /\ title = t_First_idea
      /\ pc = "idle" /\ result = "Ok"
      /\ s_main \in DOMAIN pre.branches
      /\ \A b \in DOMAIN pre.branches : ~HasId(b)
      /\ files_in_rfc_repo(tree) = {} )
    => /\ next_rfc = 1
       /\ b_001_First_idea \in DOMAIN branches
       /\ head = Symbolic(b_001_First_idea)

HasMain == s_main \in DOMAIN pre.branches
HasMaster == s_master \in DOMAIN pre.branches

\* C2: the main line is main if it exists, else master: with master and no main
\* the new branch is created at master's head; with both, at main's head; with
\* neither the call fails with the "neither main nor master" error and creates
\* no branch.
C2_MainLine ==
    (Finished /\ pre.isRepo) =>
        /\ (HasMain /\ branch_name \notin DOMAIN pre.branches) =>
              /\ branch_name \in DOMAIN branches
              /\ branches[branch_name] = pre.branches[s_main]
        /\ (~HasMain /\ HasMaster /\ branch_name \notin DOMAIN pre.branches) =>
              /\ branch_name \in DOMAIN branches
              /\ branches[branch_name] = pre.branches[s_master]
        /\ (~HasMain /\ ~HasMaster) =>
              /\ result = "NoMainBranch"
              /\ branches = pre.branches

\* C9: when the configured path holds no git repository, list_branches and
\* create_and_switch_to_branch fail with the "failed to open" error, no
\* repository is created and no branch list is returned.
C9_NotARepository ==
    (cmd \in {"list_branches", "create_and_switch"} /\ ~pre.isRepo /\ pc = "idle") =>
        /\ result = "OpenFailed"
        /\ ~isRepo

ProposalFiles ==
    {e.path : e \in {x \in tree :
        /\ ~x.isDir
        /\ extension(x.path) \in TextExtensions
        /\ is_match(file_name(x.path))}}

\* C8: the output of files_in_rfc_repo is exactly the set of files (never a
\* directory) under the root whose extension is in the allow-list and whose
\* file name holds a run of at least 3 digits.
C8_ExactlyProposalFiles == cmd = "list" => output = ProposalFiles

\* the slug as the claim states it, character by character
RECURSIVE SlugOf(_)
SlugOf(t) ==
    IF t = <<>> THEN <<>>
    ELSE LET c == t[1]
             rest == SlugOf(SubSeq(t, 2, Len(t)))
         IN IF c = " " THEN <<"-">> \o rest
            ELSE IF c \in {",", ".", "?", "!"} THEN rest
            ELSE <<c>> \o rest

\* C10: the branch name passed to Branch Creator is the id zero-padded to at
\* least 3 digits, "-", then the title with spaces turned into hyphens and
\* , . ? ! removed; id 7 and "Add metrics" give 007-Add-metrics and a title
\* of removed characters only gives the padded id and "-".
C10_BranchNameFormat ==
    Allocated =>
        /\ \E w \in 3..Len(branch_name) :
              LET digits == SubSeq(branch_name, 1, w)
              IN /\ \A i \in 1..w : IsDigit(digits[i])
                 /\ parse(digits) = next_rfc
                 /\ (w > 3 => digits[1] # "0")
                 /\ Len(branch_name) > w
                 /\ branch_name[w + 1] = "-"
                 /\ SubSeq(branch_name, w + 2, Len(branch_name)) = SlugOf(title)
        /\ (next_rfc = 7 /\ title = t_Add_metrics) => branch_name = b_007_Add_metrics
        /\ title = t_qqq =>
              /\ branch_name[Len(branch_name)] = "-"
              /\ \A i \in 1..(Len(branch_name) - 1) : IsDigit(branch_name[i])

C10_Witness ==
    /\ Allocated
    /\ next_rfc = 7
    /\ title = t_Add_metrics
    /\ branch_name = b_007_Add_metrics

\* the main line as the claim defines it: main if it exists, else master
MainLineHead ==
    IF HasMain THEN pre.branches[s_main] ELSE pre.branches[s_master]

C3_StepOrder ==
    /\ branches' # branches => (pc = "MAIN_FOUND" /\ pc' = "BRANCH_CREATED")
    /\ worktree' # worktree => (pc = "BRANCH_CREATED" /\ pc' = "TREE_CHECKED_OUT")
    /\ (isRepo /\ head' # head) => (pc = "TREE_CHECKED_OUT" /\ pc' = "idle")
    /\ pc' = "MAIN_FOUND" => pc \in {"OPENED", "MAIN_FOUND"}
    /\ pc' = "BRANCH_CREATED" => pc \in {"MAIN_FOUND", "BRANCH_CREATED"}
    /\ pc' = "TREE_CHECKED_OUT" => pc \in {"BRANCH_CREATED", "TREE_CHECKED_OUT"}
    /\ (result' = "Ok" /\ Called' /\ result # "Ok") => pc = "TREE_CHECKED_OUT"

C3_Outcome ==
    /\ (Finished /\ result = "Ok") =>
          /\ branch_name \in DOMAIN branches
          /\ branch_name \notin DOMAIN pre.branches
          /\ branches[branch_name] = MainLineHead
          /\ \A b \in DOMAIN pre.branches : branches[b] = pre.branches[b]
          /\ worktree = MainLineHead
          /\ head = Symbolic(branch_name)
    /\ (Finished /\ result # "Ok" /\ pre.isRepo) => head = pre.head

C4_NoRollbackRetryFails ==
    /\ (Finished /\ result \in {"CheckoutFailed", "SetHeadFailed"}) =>
          /\ branch_name \in DOMAIN branches
          /\ branch_name \in DOMAIN partial
    /\ \A b \in DOMAIN partial : b \in DOMAIN branches /\ branches[b] = partial[b]
    /\ (Called /\ branch_name \in DOMAIN pre.partial) =>
          /\ pc \in {"START", "OPENED", "MAIN_FOUND", "idle"}
          /\ pc = "idle" => result = "BranchExists"

C4_Witness ==
    /\ Finished
    /\ branch_name \in DOMAIN pre.partial
    /\ result = "BranchExists"
    /\ branches[branch_name] = pre.partial[branch_name]

\* C5: over a sequence of create commands, each create that reaches the
\* create-ref step uses an id strictly greater than the id of every branch the
\* earlier creates made, whether those succeeded or failed later; no two
\* branches made by the tool carry the same id.
C5_MonotonicCollisionFree ==
    /\ (cmd = "create" /\ pc = "MAIN_FOUND") =>
          \A b \in made : IdOf(b) < next_rfc
    /\ \A a \in made : \A b \in made : a # b => IdOf(a) # IdOf(b)
    /\ \A b \in made : HasId(b) /\ b \in DOMAIN branches

C5_Witness ==
    /\ cmd = "create"
    /\ pc = "MAIN_FOUND"
    /\ made \cap DOMAIN partial # {}

====
